---------------------------- MODULE Spec2Model ----------------------------
(***************************************************************************)
(* A model of src/soap.go (package onvif): the SOAP request descriptor,    *)
(* the envelope builder (createRequest), the WS-Security token generator   *)
(* (createUserToken) and the dispatcher (SendRequest).                     *)
(*                                                                         *)
(* Text is a sequence of tokens.  A token is either one character or one   *)
(* chunk of a Go string literal cut at its whitespace, so that the three   *)
(* character classes the two regular expressions of createRequest look at  *)
(* ('<' first, '>' last, whitespace) are exact on tokens.                  *)
(***************************************************************************)
EXTENDS Integers, Sequences, FiniteSets, TLC

---------------------------------------------------------------------------
(* Bounds of the model.                                                    *)

\* length of the rendered nonce (uuid.New().String() renders 36 characters)
UuidLen == 2
\* clock resolution: ticks per second (time.Time carries nanoseconds)
TicksPerSecond == 2
\* the wall clock runs from 1 to MaxNow ticks after Go's zero instant
MaxNow == 3
\* TokenAge ranges over 0..MaxTokenAge ticks
MaxTokenAge == 1
\* body fragments of the envelope specification have at most this many characters
MaxBodyLen == 3
\* strings handed to the normalization have at most this many characters
MaxTextLen == 5

---------------------------------------------------------------------------
(* Character classes of regexp `\s`, and of the '<' and '>' that the       *)
(* pattern `\>\s+\<` anchors on.                                           *)

\* Go (RE2) \s is [\t\n\f\r ]
Space == {" ", "\t", "\n", "\r", "\f"}

\* tokens whose first character is '<'
StartsWithLT ==
    {"<", "<?xml", "<s:Envelope", "<s:Header>", "</s:Header>", "<Action",
     "</Action>", "<Security", "</Security>", "<UsernameToken>",
     "</UsernameToken>", "<Username>", "</Username>", "<Password",
     "</Password>", "<Nonce", "</Nonce>", "<Created", "</Created>",
     "<s:Body>", "</s:Body>", "</s:Envelope>"}

\* tokens whose last character is '>'
EndsWithGT ==
    {">", "encoding=\"UTF-8\"?>", "<s:Header>", "</s:Header>",
     "xmlns=\"http://www.w3.org/2005/08/addressing\">", "</Action>",
     "xmlns=\"http://docs.oasis-open.org/wss/2004/01/oasis-200401-wss-wssecurity-secext-1.0.xsd\">",
     "</Security>", "<UsernameToken>", "</UsernameToken>", "<Username>",
     "</Username>",
     "Type=\"http://docs.oasis-open.org/wss/2004/01/oasis-200401-wss-username-token-profile-1.0#PasswordDigest\">",
     "</Password>",
     "EncodingType=\"http://docs.oasis-open.org/wss/2004/01/oasis-200401-wss-soap-message-security-1.0#Base64Binary\">",
     "</Nonce>",
     "xmlns=\"http://docs.oasis-open.org/wss/2004/01/oasis-200401-wss-wssecurity-utility-1.0.xsd\">",
     "</Created>", "<s:Body>", "</s:Body>", "</s:Envelope>"}

---------------------------------------------------------------------------
(* regexp.ReplaceAllString for the two patterns of createRequest.  The     *)
(* matches of a pattern are taken left to right and do not overlap.  Two   *)
(* matches of `\>\s+\<` cannot overlap (one would have to end in the '>'   *)
(* the other starts with) and `\s+` is greedy, so the matches are all the  *)
(* occurrences, and what becomes of a token depends on the whitespace run  *)
(* it is in and on the two tokens around that run.                         *)

\* the index of the first token at or after i that is not whitespace
\* (Len(s) + 1 when the whitespace runs to the end)
RECURSIVE SkipSpace(_, _)
SkipSpace(s, i) ==
    IF i <= Len(s) /\ s[i] \in Space THEN SkipSpace(s, i + 1) ELSE i

\* the index of the last token at or before i that is not whitespace
\* (0 when the whitespace runs from the start)
RECURSIVE SkipSpaceBack(_, _)
SkipSpaceBack(s, i) ==
    IF i >= 1 /\ s[i] \in Space THEN SkipSpaceBack(s, i - 1) ELSE i

\* the mutant of InTagGap: the pattern `\>\s\<`, one whitespace character
InTagGapSingle(s, i) ==
    /\ s[i] \in Space
    /\ i > 1 /\ s[i - 1] \in EndsWithGT
    /\ i < Len(s) /\ s[i + 1] \in StartsWithLT

\* token i is whitespace inside a match of `\>\s+\<`
InTagGap(s, i) ==
    LET before == SkipSpaceBack(s, i)
        after  == SkipSpace(s, i)
    IN  /\ s[i] \in Space
        /\ before >= 1 /\ s[before] \in EndsWithGT
        /\ after <= Len(s) /\ s[after] \in StartsWithLT

\* regexp.MustCompile(`\>\s+\<`).ReplaceAllString(s, "><"), tokens lo..hi
RECURSIVE ReplaceTagGapsIn(_, _, _)
ReplaceTagGapsIn(s, lo, hi) ==
    IF lo > hi THEN <<>>
    ELSE IF lo = hi THEN (IF InTagGap(s, lo) THEN <<>> ELSE <<s[lo]>>)
    ELSE LET mid == (lo + hi) \div 2
         IN  ReplaceTagGapsIn(s, lo, mid) \o ReplaceTagGapsIn(s, mid + 1, hi)

ReplaceTagGaps(s) == ReplaceTagGapsIn(s, 1, Len(s))

\* regexp.MustCompile(`\s+`).ReplaceAllString(s, " "), tokens lo..hi: a run of
\* whitespace leaves one space, where its first token was
RECURSIVE CollapseSpaceIn(_, _, _)
CollapseSpaceIn(s, lo, hi) ==
    IF lo > hi THEN <<>>
    ELSE IF lo = hi
    THEN (IF s[lo] \notin Space THEN <<s[lo]>>
          ELSE IF lo = 1 \/ s[lo - 1] \notin Space THEN <<" ">>
          ELSE <<>>)
    ELSE LET mid == (lo + hi) \div 2
         IN  CollapseSpaceIn(s, lo, mid) \o CollapseSpaceIn(s, mid + 1, hi)

\* the mutant of CollapseSpace: a run of whitespace leaves nothing
CollapseSpaceDropped(s) == SelectSeq(s, LAMBDA t : t \notin Space)

CollapseSpace(s) == CollapseSpaceIn(s, 1, Len(s))

\* the "Clean request" step that ends createRequest
CleanRequest(s) == CollapseSpace(ReplaceTagGaps(s))

---------------------------------------------------------------------------
(* encoding/base64, StdEncoding, on byte sequences (bytes are 0..255).     *)

Base64Alphabet ==
    <<"A","B","C","D","E","F","G","H","I","J","K","L","M","N","O","P",
      "Q","R","S","T","U","V","W","X","Y","Z","a","b","c","d","e","f",
      "g","h","i","j","k","l","m","n","o","p","q","r","s","t","u","v",
      "w","x","y","z","0","1","2","3","4","5","6","7","8","9","+","/">>

Base64Char(n) == Base64Alphabet[n + 1]

\* base64.StdEncoding.EncodeToString: three bytes make four characters, and a
\* last group of one or two bytes is padded with '='
RECURSIVE EncodeToString(_)
EncodeToString(b) ==
    IF Len(b) = 0 THEN <<>>
    ELSE IF Len(b) = 1
    THEN <<Base64Char(b[1] \div 4), Base64Char((b[1] % 4) * 16), "=", "=">>
    ELSE IF Len(b) = 2
    THEN <<Base64Char(b[1] \div 4),
           Base64Char((b[1] % 4) * 16 + (b[2] \div 16)),
           Base64Char((b[2] % 16) * 4), "=">>
    ELSE <<Base64Char(b[1] \div 4),
           Base64Char((b[1] % 4) * 16 + (b[2] \div 16)),
           Base64Char((b[2] % 16) * 4 + (b[3] \div 64)),
           Base64Char(b[3] % 64)>>
         \o EncodeToString(SubSeq(b, 4, Len(b)))

---------------------------------------------------------------------------
(* []byte(string): the characters the digest input is made of.             *)

CharCode ==
    [c \in {"0","1","2","3","4","5","6","7","8","9","a","b","c","d","e","f",
            "-", ":", "T", "Z", "+", "p", "w", "s", " "} |->
        CASE c = "0" -> 48 [] c = "1" -> 49 [] c = "2" -> 50 [] c = "3" -> 51
          [] c = "4" -> 52 [] c = "5" -> 53 [] c = "6" -> 54 [] c = "7" -> 55
          [] c = "8" -> 56 [] c = "9" -> 57 [] c = "a" -> 97 [] c = "b" -> 98
          [] c = "c" -> 99 [] c = "d" -> 100 [] c = "e" -> 101 [] c = "f" -> 102
          [] c = "-" -> 45 [] c = ":" -> 58 [] c = "T" -> 84 [] c = "Z" -> 90
          [] c = "+" -> 43 [] c = "p" -> 112 [] c = "w" -> 119 [] c = "s" -> 115
          [] c = " " -> 32]

\* ([]byte)(s)
Bytes(s) == [i \in 1..Len(s) |-> CharCode[s[i]]]

---------------------------------------------------------------------------
(* crypto/sha1.  The digest function is the library's; the model keeps its *)
(* interface (bytes in, a fixed number of bytes out, every input byte and  *)
(* its position counted) with a 16-bit multiplicative hash in its place.   *)

RECURSIVE Sha1State(_, _)
Sha1State(h, b) ==
    IF Len(b) = 0 THEN h
    ELSE Sha1State((h * 33 + b[1]) % 65536, Tail(b))

\* sha := sha1.New(); sha.Write(b); sha.Sum(nil)
Sha1Sum(b) ==
    LET h == Sha1State(5381, b) IN <<h \div 256, h % 256>>

---------------------------------------------------------------------------
(* package time.  A time.Time is an instant, in ticks since Go's zero      *)
(* instant (January 1, year 1, 00:00:00 UTC), and a location.              *)

Digits == <<"0","1","2","3","4","5","6","7","8","9">>

TwoDigits(n) == <<Digits[((n \div 10) % 10) + 1], Digits[(n % 10) + 1]>>

\* t.IsZero()
IsZero(t) == t.ticks = 0

\* t.Add(d)
Add(t, d) == [t EXCEPT !.ticks = @ + d]

\* t.UTC(): the same instant, location UTC
UTC(t) == [t EXCEPT !.loc = "UTC"]

\* t.Format(time.RFC3339), "2006-01-02T15:04:05Z07:00": whole seconds in the
\* location of t (the location Local is one hour east of UTC); the instants of
\* the model lie in the first day of year 1
Format(t) ==
    LET sec == (t.ticks \div TicksPerSecond)
                 + (IF t.loc = "UTC" THEN 0 ELSE 3600)
    IN  <<"0","0","0","1","-","0","1","-","0","1","T">>
        \o TwoDigits((sec \div 3600) % 24) \o <<":">>
        \o TwoDigits((sec \div 60) % 60) \o <<":">>
        \o TwoDigits(sec % 60)
        \o (IF t.loc = "UTC" THEN <<"Z">> ELSE <<"+","0","1",":","0","0">>)

\* time.Now() when the wall clock shows n ticks
Now(n) == [ticks |-> n, loc |-> "Local"]

\* the zero time.Time
ZeroTime == [ticks |-> 0, loc |-> "UTC"]

---------------------------------------------------------------------------
(* github.com/google/uuid.  uuid.New() draws from the random source; the   *)
(* k-th draw of a run is rendered as UuidLen hexadecimal digits.           *)

HexDigits ==
    <<"0","1","2","3","4","5","6","7","8","9","a","b","c","d","e","f">>

RECURSIVE Pow16(_)
Pow16(n) == IF n = 0 THEN 1 ELSE 16 * Pow16(n - 1)

\* the mutant of UuidString: a generator that returns the same value on every draw
UuidStringFixed(k) == [i \in 1..UuidLen |-> "0"]

\* uuid.New().String() for the k-th draw
UuidString(k) ==
    [i \in 1..UuidLen |-> HexDigits[((k \div Pow16(UuidLen - i)) % 16) + 1]]

---------------------------------------------------------------------------
(* type SOAP: the request descriptor.  Strings are token sequences, XMLNs  *)
(* a sequence of strings, TokenAge a number of ticks, CameraTime a time.   *)

SOAP(body, xmlns, user, password, tokenAge, action, noDebug, cameraTime) ==
    [Body |-> body, XMLNs |-> xmlns, User |-> user, Password |-> password,
     TokenAge |-> tokenAge, Action |-> action, NoDebug |-> noDebug,
     CameraTime |-> cameraTime]

---------------------------------------------------------------------------
(* func (soap SOAP) createUserToken() string; k is the draw of the random  *)
(* source and n the reading of the wall clock that the call gets.          *)

\* the mutant of Timestamp: the local clock is read whatever CameraTime holds
TimestampFromClock(soap, n) ==
    Format(UTC(Add(Now(n), soap.TokenAge)))

\* timestamp, chosen between CameraTime and time.Now()
Timestamp(soap, n) ==
    IF ~IsZero(soap.CameraTime)
    THEN Format(UTC(Add(soap.CameraTime, soap.TokenAge)))
    ELSE Format(UTC(Add(Now(n), soap.TokenAge)))

\* the mutant of TokenInput: the password first
TokenInputPasswordFirst(nonce, timestamp, password) ==
    password \o nonce \o timestamp

\* token := string(nonce) + timestamp + soap.Password
TokenInput(nonce, timestamp, password) ==
    nonce \o timestamp \o password

createUserToken(soap, k, n) ==
    LET nonce       == UuidString(k)
        nonce64     == EncodeToString(Bytes(nonce))
        timestamp   == Timestamp(soap, n)
        token       == TokenInput(nonce, timestamp, soap.Password)
        shaToken    == Sha1Sum(Bytes(token))
        shaDigest64 == EncodeToString(shaToken)
    IN  <<"<Security", " ", "s:mustUnderstand=\"1\"", " ",
          "xmlns=\"http://docs.oasis-open.org/wss/2004/01/oasis-200401-wss-wssecurity-secext-1.0.xsd\">",
          "\n", " ", " ", "\t", "\t", "<UsernameToken>",
          "\n", " ", " ", " ", " ", "\t", "\t", "<Username>">>
        \o soap.User
        \o <<"</Username>",
             "\n", " ", " ", " ", " ", "\t", "\t", "<Password", " ",
             "Type=\"http://docs.oasis-open.org/wss/2004/01/oasis-200401-wss-username-token-profile-1.0#PasswordDigest\">">>
        \o shaDigest64
        \o <<"</Password>",
             "\n", " ", " ", " ", " ", "\t", "\t", "<Nonce", " ",
             "EncodingType=\"http://docs.oasis-open.org/wss/2004/01/oasis-200401-wss-soap-message-security-1.0#Base64Binary\">">>
        \o nonce64
        \o <<"</Nonce>",
             "\n", " ", " ", " ", " ", "\t", "\t", "<Created", " ",
             "xmlns=\"http://docs.oasis-open.org/wss/2004/01/oasis-200401-wss-wssecurity-utility-1.0.xsd\">">>
        \o timestamp
        \o <<"</Created>", "\n", "\t", "\t", "</UsernameToken>",
             "\n", "\t", "</Security>">>

---------------------------------------------------------------------------
(* func (soap SOAP) createRequest() string                                 *)

\* for _, namespace := range soap.XMLNs { request += " " + namespace }
RECURSIVE Namespaces(_)
Namespaces(xmlns) ==
    IF Len(xmlns) = 0 THEN <<>>
    ELSE <<" ">> \o Head(xmlns) \o Namespaces(Tail(xmlns))

\* the mutant of Header: the header block is written for every descriptor
HeaderAlways(soap, k, n) ==
    <<"<s:Header>">>
    \o (IF soap.Action # <<>>
        THEN <<"<Action", " ", "mustUnderstand=\"1\"", "\n",
               "\t", "\t", "\t", "\t", "\t", "\t", "\t", " ", " ", " ",
               "xmlns=\"http://www.w3.org/2005/08/addressing\">">>
             \o soap.Action \o <<"</Action>">>
        ELSE <<>>)
    \o (IF soap.User # <<>> THEN createUserToken(soap, k, n) ELSE <<>>)
    \o <<"</s:Header>">>

\* "Set request header"
Header(soap, k, n) ==
    IF soap.Action # <<>> \/ soap.User # <<>>
    THEN <<"<s:Header>">>
         \o (IF soap.Action # <<>>
             THEN <<"<Action", " ", "mustUnderstand=\"1\"", "\n",
                    "\t", "\t", "\t", "\t", "\t", "\t", "\t", " ", " ", " ",
                    "xmlns=\"http://www.w3.org/2005/08/addressing\">">>
                  \o soap.Action \o <<"</Action>">>
             ELSE <<>>)
         \o (IF soap.User # <<>> THEN createUserToken(soap, k, n) ELSE <<>>)
         \o <<"</s:Header>">>
    ELSE <<>>

\* the request as it is before the "Clean request" step
RawRequest(soap, k, n) ==
    <<"<?xml", " ", "version=\"1.0\"", " ", "encoding=\"UTF-8\"?>">>
    \o <<"<s:Envelope", " ",
         "xmlns:s=\"http://www.w3.org/2003/05/soap-envelope\"">>
    \o Namespaces(soap.XMLNs)
    \o <<">">>
    \o Header(soap, k, n)
    \o <<"<s:Body>">> \o soap.Body \o <<"</s:Body>">>
    \o <<"</s:Envelope>">>

createRequest(soap, k, n) == CleanRequest(RawRequest(soap, k, n))

---------------------------------------------------------------------------
(* The collaborators of SendRequest: net/url, net/http, the digest         *)
(* transport, ioutil.ReadAll and mxj.                                      *)

\* an error value: the stage that produced it and its message
Error(stage, msg) == [stage |-> stage, msg |-> msg]

\* the nil error
NoError == Error("nil", "")

\* a nil mxj.Map
NilMap == [nil |-> TRUE, vals |-> {}]

\* the addresses a caller hands in, by what net/url and net/http make of them
XAddrs == {"wellformed", "malformed", "unrequestable"}

\* url.UserPassword(username, password), and the nil *url.Userinfo
UserPassword(username, password) ==
    [set |-> TRUE, username |-> username, password |-> password]

NoUserinfo == [set |-> FALSE, username |-> <<>>, password |-> <<>>]

NoURL == [nil |-> TRUE, addr |-> "", User |-> NoUserinfo]

\* url.Parse(xaddr)
url_Parse(xaddr) ==
    IF xaddr = "malformed"
    THEN [url |-> NoURL, err |-> Error("url.Parse", "invalid control character in URL")]
    ELSE [url |-> [nil |-> FALSE, addr |-> xaddr, User |-> NoUserinfo],
          err |-> NoError]

NoRequest == [nil |-> TRUE, Method |-> "", URL |-> NoURL, Body |-> <<>>, Header |-> {}]

\* http.NewRequest(method, url.String(), body)
http_NewRequest(method, url, body) ==
    IF url.addr = "unrequestable"
    THEN [req |-> NoRequest, err |-> Error("http.NewRequest", "parse error")]
    ELSE [req |-> [nil |-> FALSE, Method |-> method, URL |-> url,
                   Body |-> body, Header |-> {}],
          err |-> NoError]

FaultPath12 == "Envelope.Body.Fault.Reason.Text.#text"
FaultPath11 == "Envelope.Body.Fault.faultstring"

\* the texts a response may hold at a fault path
FaultTexts == {"", "X", "Y"}

\* the trees of the responses: each fault path absent or holding one text
ResponseTrees ==
    { {<<"Envelope.Body.Response", "ok">>} \cup a \cup b :
        a \in {{}} \cup {{<<FaultPath12, t>>} : t \in FaultTexts},
        b \in {{}} \cup {{<<FaultPath11, t>>} : t \in FaultTexts} }

\* the response bodies a camera may send: bytes that are no XML, or a document
ResponseBodies ==
    {[wellFormed |-> FALSE, vals |-> {}]}
    \cup {[wellFormed |-> TRUE, vals |-> v] : v \in ResponseTrees}

NoBody == [wellFormed |-> FALSE, vals |-> {}]

\* mxj.NewMapXml(responseBody)
NewMapXml(responseBody) ==
    IF responseBody.wellFormed
    THEN [m |-> [nil |-> FALSE, vals |-> responseBody.vals], err |-> NoError]
    ELSE [m |-> NilMap, err |-> Error("mxj.NewMapXml", "malformed XML")]

\* mapXML.ValueForPathString(path): the string at the path, or "" and an error
ValueForPathString(mapXML, path) ==
    IF \E e \in mapXML.vals : e[1] = path
    THEN [s |-> (CHOOSE e \in mapXML.vals : e[1] = path)[2], err |-> NoError]
    ELSE [s |-> "", err |-> Error("mxj.ValueForPath", "path not found")]

---------------------------------------------------------------------------
(* State.                                                                  *)

VARIABLES
    soap,       \* the descriptor the caller holds and calls SendRequest on
    callers,    \* the calls of SendRequest the caller makes, concurrently
    camera,     \* the response bodies the endpoint may answer with
    now,        \* the wall clock, in ticks
    uuids,      \* how many values uuid.New() has drawn from the random source
    local,      \* per call: the position in SendRequest and its local variables
    hist,       \* per call: what the call has done so far (history)
    envelope,   \* the result of createRequest in the envelope specification
    text,       \* the input of the normalization specification
    cleaned,    \* CleanRequest(text)
    recleaned,  \* CleanRequest(cleaned)
    phase       \* the step the envelope and normalization specifications are at

vars == <<soap, callers, camera, now, uuids, local, hist, envelope, text, cleaned, recleaned, phase>>

\* the names of the SendRequest calls
Calls == {"c1", "c2"}

\* the stages of SendRequest, in program order
Stages ==
    <<"createRequest", "url.Parse", "http.NewRequest", "RoundTrip", "ReadAll",
      "mxj.NewMapXml", "fault">>

\* all strings over alphabet S of length at most n
Strings(S, n) == UNION {[1..m -> S] : m \in 0..n}

Namespace1 == <<"xmlns:tds=\"http://www.onvif.org/ver10/device/wsdl\"">>
Namespace2 == <<"xmlns:tt=\"http://www.onvif.org/ver10/schema\"">>

\* a camera clock reading later than every reading of the local clock
CameraClock == [ticks |-> 2 * MaxNow + 1, loc |-> "Local"]

\* the descriptors of the dispatcher specification
Descriptors ==
    { SOAP(<<"<", "b", "/", ">">>, <<Namespace1>>, user, password, age,
           action, noDebug, cameraTime) :
        user \in {<<>>, <<"a">>},
        password \in {<<"p", "w">>, <<"s">>},
        age \in 0..MaxTokenAge,
        action \in {<<>>, <<"d">>},
        noDebug \in BOOLEAN,
        cameraTime \in {ZeroTime, CameraClock} }

InitLocal ==
    [pc |-> "idle", soap |-> SOAP(<<>>, <<>>, <<>>, <<>>, 0, <<>>, FALSE, ZeroTime),
     xaddr |-> "", request |-> <<>>, urlXAddr |-> NoURL, req |-> NoRequest,
     resp |-> NoBody, responseBody |-> NoBody, mapXML |-> NilMap,
     ret |-> [m |-> NilMap, err |-> NoError]]

InitHist ==
    [stages |-> <<>>, errors |-> <<>>, tokens |-> 0, draw |-> 0, clock |-> 0,
     requests |-> 0, roundTrips |-> 0, logged |-> 0, closed |-> FALSE,
     tree |-> NilMap]

Init ==
    /\ soap \in Descriptors
    /\ callers = {"c1"}
    /\ camera = ResponseBodies
    /\ now = 1
    /\ uuids = 0
    /\ local = [c \in Calls |-> InitLocal]
    /\ hist = [c \in Calls |-> InitHist]
    /\ envelope = <<>>
    /\ text = <<>>
    /\ cleaned = <<>>
    /\ recleaned = <<>>
    /\ phase = "dispatch"

pureVars == <<envelope, text, cleaned, recleaned, phase>>

---------------------------------------------------------------------------
(* func (soap SOAP) SendRequest(xaddr string) (mxj.Map, error), one action *)
(* per stage; c is the call.                                               *)

\* `return m, err` of call c, from the state l of its local variables: the
\* receiver, the argument and the request stay for the history to look at, the
\* other locals are gone
Return(c, l, m, err) ==
    local' = [local EXCEPT ![c] =
                [InitLocal EXCEPT !.pc = "done", !.soap = l.soap,
                                  !.xaddr = l.xaddr, !.request = l.request,
                                  !.ret = [m |-> m, err |-> err]]]

\* stage st of call c has run, and has reported the errors errs
Ran(c, st, errs) ==
    [hist[c] EXCEPT !.stages = Append(@, st), !.errors = @ \o errs]

\* the caller calls soap.SendRequest(xaddr): the receiver is a copy of soap
Call(c, xaddr) ==
    /\ phase = "dispatch"
    /\ c \in callers
    /\ local[c].pc = "idle"
    /\ local' = [local EXCEPT ![c].pc = "createRequest",
                              ![c].soap = soap,
                              ![c].xaddr = xaddr]
    /\ UNCHANGED <<soap, callers, camera, now, uuids, hist, pureVars>>

\* request := soap.createRequest()
CreateRequest(c) ==
    LET l == local[c]
        withToken == l.soap.User # <<>>
    IN  /\ l.pc = "createRequest"
        /\ local' = [local EXCEPT ![c].pc = "url.Parse",
                                  ![c].request = createRequest(l.soap, uuids, now)]
        /\ uuids' = IF withToken THEN uuids + 1 ELSE uuids
        /\ hist' = [hist EXCEPT ![c] =
                      [Ran(c, "createRequest", <<>>) EXCEPT
                         !.tokens = IF withToken THEN @ + 1 ELSE @,
                         !.draw = IF withToken THEN uuids ELSE @,
                         !.clock = IF withToken THEN now ELSE @]]
        /\ UNCHANGED <<soap, callers, camera, now, pureVars>>

\* the mutant of ParseURL: the error of url.Parse is dropped and the call goes on
ParseURLUnchecked(c) ==
    LET l == local[c]
        parsed == url_Parse(l.xaddr)
        urlXAddr == IF l.soap.User # <<>>
                    THEN [parsed.url EXCEPT
                            !.User = UserPassword(l.soap.User, l.soap.Password)]
                    ELSE parsed.url
    IN  /\ l.pc = "url.Parse"
        /\ local' = [local EXCEPT ![c].pc = "http.NewRequest",
                                  ![c].urlXAddr = urlXAddr]
        /\ hist' = [hist EXCEPT ![c] =
                      [Ran(c, "url.Parse", <<>>) EXCEPT
                         !.logged = IF l.soap.NoDebug THEN @ ELSE @ + 1]]
        /\ UNCHANGED <<soap, callers, camera, now, uuids, pureVars>>

\* urlXAddr, err := url.Parse(xaddr), the user info and the trace of the request
ParseURL(c) ==
    LET l == local[c]
        parsed == url_Parse(l.xaddr)
        urlXAddr == IF l.soap.User # <<>>
                    THEN [parsed.url EXCEPT
                            !.User = UserPassword(l.soap.User, l.soap.Password)]
                    ELSE parsed.url
    IN  /\ l.pc = "url.Parse"
        /\ IF parsed.err # NoError
           THEN /\ Return(c, l, NilMap, parsed.err)
                /\ hist' = [hist EXCEPT ![c] = Ran(c, "url.Parse", <<parsed.err>>)]
           ELSE /\ local' = [local EXCEPT ![c].pc = "http.NewRequest",
                                          ![c].urlXAddr = urlXAddr]
                /\ hist' = [hist EXCEPT ![c] =
                              [Ran(c, "url.Parse", <<>>) EXCEPT
                                 !.logged = IF l.soap.NoDebug THEN @ ELSE @ + 1]]
        /\ UNCHANGED <<soap, callers, camera, now, uuids, pureVars>>

\* req, err := http.NewRequest("POST", urlXAddr.String(), buffer), and its headers
NewRequest(c) ==
    LET l == local[c]
        made == http_NewRequest("POST", l.urlXAddr, l.request)
    IN  /\ l.pc = "http.NewRequest"
        /\ IF made.err # NoError
           THEN /\ Return(c, l, NilMap, made.err)
                /\ hist' = [hist EXCEPT ![c] = Ran(c, "http.NewRequest", <<made.err>>)]
           ELSE /\ local' = [local EXCEPT
                      ![c].pc = "RoundTrip",
                      ![c].req = [made.req EXCEPT !.Header =
                                    {<<"Content-Type", "application/soap+xml">>,
                                     <<"Charset", "utf-8">>}]]
                /\ hist' = [hist EXCEPT ![c] =
                              [Ran(c, "http.NewRequest", <<>>) EXCEPT
                                 !.requests = @ + 1]]
        /\ UNCHANGED <<soap, callers, camera, now, uuids, pureVars>>

\* the mutant of RoundTrip: a failed exchange is tried again
RoundTripRetry(c) ==
    LET l == local[c]
    IN  /\ l.pc = "RoundTrip"
        /\ \E failed \in BOOLEAN, body \in camera :
             IF failed
             THEN /\ hist[c].roundTrips < 2
                  /\ UNCHANGED local
                  /\ hist' = [hist EXCEPT ![c].roundTrips = @ + 1]
             ELSE /\ local' = [local EXCEPT ![c].pc = "ReadAll", ![c].resp = body]
                  /\ hist' = [hist EXCEPT ![c] =
                                [Ran(c, "RoundTrip", <<>>) EXCEPT
                                   !.roundTrips = @ + 1]]
        /\ UNCHANGED <<soap, callers, camera, now, uuids, pureVars>>

\* resp, err := digest.NewTransport(soap.User, soap.Password).RoundTrip(req):
\* the exchange fails, or the camera answers with some body
RoundTrip(c) ==
    LET l == local[c]
        err == Error("RoundTrip", "transport error")
    IN  /\ l.pc = "RoundTrip"
        /\ \E failed \in BOOLEAN, body \in camera :
             IF failed
             THEN /\ Return(c, l, NilMap, err)
                  /\ hist' = [hist EXCEPT ![c] =
                                [Ran(c, "RoundTrip", <<err>>) EXCEPT
                                   !.roundTrips = @ + 1]]
             ELSE /\ local' = [local EXCEPT ![c].pc = "ReadAll", ![c].resp = body]
                  /\ hist' = [hist EXCEPT ![c] =
                                [Ran(c, "RoundTrip", <<>>) EXCEPT
                                   !.roundTrips = @ + 1]]
        /\ UNCHANGED <<soap, callers, camera, now, uuids, pureVars>>

\* the mutant of ReadAll: the error of the read is dropped and the call goes on
ReadAllUnchecked(c) ==
    LET l == local[c]
        err == Error("ReadAll", "unexpected EOF")
    IN  /\ l.pc = "ReadAll"
        /\ \E failed \in BOOLEAN :
             /\ local' = [local EXCEPT ![c].pc = "mxj.NewMapXml",
                                       ![c].responseBody = l.resp]
             /\ hist' = [hist EXCEPT ![c] =
                           [Ran(c, "ReadAll", IF failed THEN <<err>> ELSE <<>>)
                              EXCEPT !.logged = IF l.soap.NoDebug THEN @ ELSE @ + 1]]
        /\ UNCHANGED <<soap, callers, camera, now, uuids, pureVars>>

\* defer resp.Body.Close(); responseBody, err := ioutil.ReadAll(resp.Body), and
\* the trace of the response
ReadAll(c) ==
    LET l == local[c]
        err == Error("ReadAll", "unexpected EOF")
    IN  /\ l.pc = "ReadAll"
        /\ \E failed \in BOOLEAN :
             IF failed
             THEN /\ Return(c, l, NilMap, err)
                  /\ hist' = [hist EXCEPT ![c] =
                                [Ran(c, "ReadAll", <<err>>) EXCEPT !.closed = TRUE]]
             ELSE /\ local' = [local EXCEPT ![c].pc = "mxj.NewMapXml",
                                            ![c].responseBody = l.resp]
                  /\ hist' = [hist EXCEPT ![c] =
                                [Ran(c, "ReadAll", <<>>) EXCEPT
                                   !.logged = IF l.soap.NoDebug THEN @ ELSE @ + 1]]
        /\ UNCHANGED <<soap, callers, camera, now, uuids, pureVars>>

\* mapXML, err := mxj.NewMapXml(responseBody)
ParseXML(c) ==
    LET l == local[c]
        parsed == NewMapXml(l.responseBody)
    IN  /\ l.pc = "mxj.NewMapXml"
        /\ IF parsed.err # NoError
           THEN /\ Return(c, l, NilMap, parsed.err)
                /\ hist' = [hist EXCEPT ![c] =
                              [Ran(c, "mxj.NewMapXml", <<parsed.err>>) EXCEPT
                                 !.closed = TRUE]]
           ELSE /\ local' = [local EXCEPT ![c].pc = "fault",
                                          ![c].mapXML = parsed.m]
                /\ hist' = [hist EXCEPT ![c] =
                              [Ran(c, "mxj.NewMapXml", <<>>) EXCEPT
                                 !.tree = parsed.m]]
        /\ UNCHANGED <<soap, callers, camera, now, uuids, pureVars>>

\* the mutant of Classify: the SOAP 1.1 path is looked up first
ClassifyFaultstringFirst(c) ==
    LET l == local[c]
        fault11 == ValueForPathString(l.mapXML, FaultPath11).s
        fault12 == ValueForPathString(l.mapXML, FaultPath12).s
        err == IF fault11 # "" THEN Error("fault", fault11)
               ELSE IF fault12 # "" THEN Error("fault", fault12)
               ELSE NoError
    IN  /\ l.pc = "fault"
        /\ IF err # NoError
           THEN Return(c, l, NilMap, err)
           ELSE Return(c, l, l.mapXML, NoError)
        /\ hist' = [hist EXCEPT ![c] =
                      [Ran(c, "fault", IF err # NoError THEN <<err>> ELSE <<>>)
                         EXCEPT !.closed = TRUE]]
        /\ UNCHANGED <<soap, callers, camera, now, uuids, pureVars>>

\* "Check if SOAP returns fault", and the final return
Classify(c) ==
    LET l == local[c]
        fault12 == ValueForPathString(l.mapXML, FaultPath12).s
        fault11 == ValueForPathString(l.mapXML, FaultPath11).s
        err == IF fault12 # "" THEN Error("fault", fault12)
               ELSE IF fault11 # "" THEN Error("fault", fault11)
               ELSE NoError
    IN  /\ l.pc = "fault"
        /\ IF err # NoError
           THEN Return(c, l, NilMap, err)
           ELSE Return(c, l, l.mapXML, NoError)
        /\ hist' = [hist EXCEPT ![c] =
                      [Ran(c, "fault", IF err # NoError THEN <<err>> ELSE <<>>)
                         EXCEPT !.closed = TRUE]]
        /\ UNCHANGED <<soap, callers, camera, now, uuids, pureVars>>

\* the wall clock advances
Tick ==
    /\ phase = "dispatch"
    /\ now < MaxNow
    /\ now' = now + 1
    /\ UNCHANGED <<soap, callers, camera, uuids, local, hist, pureVars>>

Next ==
    \/ \E c \in Calls, xaddr \in XAddrs : Call(c, xaddr)
    \/ \E c \in Calls : CreateRequest(c)
    \/ \E c \in Calls : ParseURL(c)
    \/ \E c \in Calls : NewRequest(c)
    \/ \E c \in Calls : RoundTrip(c)
    \/ \E c \in Calls : ReadAll(c)
    \/ \E c \in Calls : ParseXML(c)
    \/ \E c \in Calls : Classify(c)
    \/ Tick

Spec == Init /\ [][Next]_vars

---------------------------------------------------------------------------
(* Two SendRequest calls run concurrently on one descriptor.               *)

ConcurrentDescriptors ==
    { SOAP(<<"<", "b", "/", ">">>, <<Namespace1>>, user, <<"p", "w">>, 0,
           <<>>, TRUE, cameraTime) :
        user \in {<<>>, <<"a">>},
        cameraTime \in {ZeroTime, CameraClock} }

InitConcurrent ==
    /\ soap \in ConcurrentDescriptors
    /\ callers = Calls
    /\ camera = {NoBody,
                 [wellFormed |-> TRUE, vals |-> {<<FaultPath11, "Y">>}],
                 [wellFormed |-> TRUE, vals |-> {<<"Envelope.Body.Response", "ok">>}]}
    /\ now = 1
    /\ uuids = 0
    /\ local = [c \in Calls |-> InitLocal]
    /\ hist = [c \in Calls |-> InitHist]
    /\ envelope = <<>>
    /\ text = <<>>
    /\ cleaned = <<>>
    /\ recleaned = <<>>
    /\ phase = "dispatch"

SpecConcurrent == InitConcurrent /\ [][Next]_vars

---------------------------------------------------------------------------
(* createRequest as a function of the descriptor.                          *)

BodyChars == {"<", ">", " ", "\n", "b"}

EnvelopeDescriptors ==
    { SOAP(body, xmlns, user, <<"p", "w">>, 0, action, TRUE, ZeroTime) :
        body \in Strings(BodyChars, MaxBodyLen),
        xmlns \in {<<>>, <<Namespace1, Namespace2>>},
        user \in {<<>>, <<"a">>},
        action \in {<<>>, <<"d">>} }

InitEnvelope ==
    /\ soap \in EnvelopeDescriptors
    /\ callers = {}
    /\ camera = {}
    /\ now = 1
    /\ uuids = 0
    /\ local = [c \in Calls |-> InitLocal]
    /\ hist = [c \in Calls |-> InitHist]
    /\ envelope = <<>>
    /\ text = <<>>
    /\ cleaned = <<>>
    /\ recleaned = <<>>
    /\ phase = "descriptor"

\* envelope := soap.createRequest()
BuildEnvelope ==
    /\ phase = "descriptor"
    /\ phase' = "built"
    /\ envelope' = createRequest(soap, uuids, now)
    /\ uuids' = IF soap.User # <<>> THEN uuids + 1 ELSE uuids
    /\ UNCHANGED <<soap, callers, camera, now, local, hist, text, cleaned, recleaned>>

NextEnvelope == BuildEnvelope

SpecEnvelope == InitEnvelope /\ [][NextEnvelope]_vars

---------------------------------------------------------------------------
(* The "Clean request" step as a function of any string.                   *)

TextChars == {"<", ">", " ", "\n", "b", "<s:Body>"}

InitNormalize ==
    /\ soap = SOAP(<<>>, <<>>, <<>>, <<>>, 0, <<>>, TRUE, ZeroTime)
    /\ callers = {}
    /\ camera = {}
    /\ now = 1
    /\ uuids = 0
    /\ local = [c \in Calls |-> InitLocal]
    /\ hist = [c \in Calls |-> InitHist]
    /\ envelope = <<>>
    /\ text \in Strings(TextChars, MaxTextLen)
    /\ cleaned = <<>>
    /\ recleaned = <<>>
    /\ phase = "text"

\* cleaned := CleanRequest(text)
Clean ==
    /\ phase = "text"
    /\ phase' = "cleaned"
    /\ cleaned' = CleanRequest(text)
    /\ UNCHANGED <<soap, callers, camera, now, uuids, local, hist, envelope, text, recleaned>>

\* recleaned := CleanRequest(cleaned)
CleanAgain ==
    /\ phase = "cleaned"
    /\ phase' = "recleaned"
    /\ recleaned' = CleanRequest(cleaned)
    /\ UNCHANGED <<soap, callers, camera, now, uuids, local, hist, envelope, text, cleaned>>

NextNormalize == Clean \/ CleanAgain

SpecNormalize == InitNormalize /\ [][NextNormalize]_vars

---------------------------------------------------------------------------
(* Reading an envelope back, for the properties below.                     *)

\* the index of the first token tok of s at or after i; 0 when there is none
FirstIndex(s, tok, i) ==
    IF \E j \in i..Len(s) : s[j] = tok
    THEN CHOOSE j \in i..Len(s) : s[j] = tok /\ \A k \in i..(j - 1) : s[k] # tok
    ELSE 0

Contains(s, tok) == FirstIndex(s, tok, 1) > 0

\* the tokens between the first `open` and the first `close` after it
Between(s, open, close) ==
    LET i == FirstIndex(s, open, 1)
        j == FirstIndex(s, close, i + 1)
    IN  SubSeq(s, i + 1, j - 1)

PasswordTag ==
    "Type=\"http://docs.oasis-open.org/wss/2004/01/oasis-200401-wss-username-token-profile-1.0#PasswordDigest\">"
NonceTag ==
    "EncodingType=\"http://docs.oasis-open.org/wss/2004/01/oasis-200401-wss-soap-message-security-1.0#Base64Binary\">"
CreatedTag ==
    "xmlns=\"http://docs.oasis-open.org/wss/2004/01/oasis-200401-wss-wssecurity-utility-1.0.xsd\">"

PasswordOf(env) == Between(env, PasswordTag, "</Password>")
NonceOf(env) == Between(env, NonceTag, "</Nonce>")
CreatedOf(env) == Between(env, CreatedTag, "</Created>")
BodyOf(env) == Between(env, "<s:Body>", "</s:Body>")

\* the value of a base64 character
Base64Value(ch) == (CHOOSE n \in 1..64 : Base64Alphabet[n] = ch) - 1

\* base64 decoding: four characters make three bytes, less the padding
RECURSIVE DecodeString(_)
DecodeString(e) ==
    IF Len(e) < 4 THEN <<>>
    ELSE LET v1 == Base64Value(e[1])
             v2 == Base64Value(e[2])
             b1 == v1 * 4 + (v2 \div 16)
         IN  IF e[3] = "=" THEN <<b1>>
             ELSE LET v3 == Base64Value(e[3])
                      b2 == (v2 % 16) * 16 + (v3 \div 4)
                  IN  IF e[4] = "=" THEN <<b1, b2>>
                      ELSE <<b1, b2, (v3 % 4) * 64 + Base64Value(e[4])>>
                           \o DecodeString(SubSeq(e, 5, Len(e)))

\* call c has built its request
Built(c) == local[c].pc \notin {"idle", "createRequest"}

\* call c has built a request that carries a security token
BuiltToken(c) == Built(c) /\ local[c].soap.User # <<>>

Returned(c) == local[c].pc = "done"

\* the texts a tree holds at a path
TextsAt(tree, path) == {e[2] : e \in {x \in tree.vals : x[1] = path}}

---------------------------------------------------------------------------
(* C1: a response that parses into a tree is classified by its two fault   *)
(* paths: a non-empty text at Envelope.Body.Fault.Reason.Text.#text is the *)
(* error returned, with no tree; otherwise a non-empty text at             *)
(* Envelope.Body.Fault.faultstring is; otherwise the tree is returned with *)
(* no error.  With both paths populated the SOAP 1.2 text is reported.     *)

FaultClassification ==
    \A c \in Calls :
        (Returned(c) /\ ~hist[c].tree.nil) =>
            LET tree == hist[c].tree
                t12 == TextsAt(tree, FaultPath12) \ {""}
                t11 == TextsAt(tree, FaultPath11) \ {""}
                ret == local[c].ret
            IN  IF t12 # {}
                THEN ret.m = NilMap /\ ret.err.stage = "fault" /\ {ret.err.msg} = t12
                ELSE IF t11 # {}
                THEN ret.m = NilMap /\ ret.err.stage = "fault" /\ {ret.err.msg} = t11
                ELSE ret.m = tree /\ ret.err = NoError

FaultClassificationWitness ==
    \E c \in Calls :
        /\ Returned(c)
        /\ TextsAt(hist[c].tree, FaultPath12) = {"X"}
        /\ TextsAt(hist[c].tree, FaultPath11) = {"Y"}
        /\ local[c].ret.err.msg = "X"

---------------------------------------------------------------------------
(* C2: a malformed endpoint address makes the call fail with the error of  *)
(* url.Parse and no tree; no HTTP request is constructed and the round     *)
(* trip is never invoked in that call.                                     *)

MalformedEndpoint ==
    \A c \in Calls :
        local[c].xaddr = "malformed" =>
            /\ hist[c].requests = 0
            /\ hist[c].roundTrips = 0
            /\ \A i \in 1..Len(hist[c].stages) :
                 hist[c].stages[i] \in {"createRequest", "url.Parse"}
            /\ local[c].req.nil
            /\ Returned(c) =>
                 /\ local[c].ret.m = NilMap
                 /\ local[c].ret.err = url_Parse("malformed").err

MalformedEndpointWitness ==
    \E c \in Calls :
        /\ Returned(c)
        /\ local[c].xaddr = "malformed"
        /\ local[c].ret.err.stage = "url.Parse"

---------------------------------------------------------------------------
(* C3: a call returns either a tree and no error, or no tree and one       *)
(* error: the error of the first stage that failed, after which no stage   *)
(* of that call runs.                                                      *)

OneOutcome ==
    \A c \in Calls :
        LET h == hist[c]
            ret == local[c].ret
        IN  /\ h.stages = SubSeq(Stages, 1, Len(h.stages))
            /\ Len(h.errors) <= 1
            /\ Len(h.errors) = 1 =>
                 /\ Returned(c)
                 /\ h.errors[1].stage = h.stages[Len(h.stages)]
            /\ Returned(c) =>
                 \/ /\ ~ret.m.nil
                    /\ ret.err = NoError
                    /\ h.errors = <<>>
                    /\ h.stages = Stages
                 \/ /\ ret.m = NilMap
                    /\ ret.err # NoError
                    /\ h.errors = <<ret.err>>
            /\ ~Returned(c) => ret = [m |-> NilMap, err |-> NoError]

OneOutcomeWitness ==
    /\ \E c \in Calls :
         /\ Returned(c)
         /\ local[c].ret.err.stage = "ReadAll"
         /\ hist[c].stages = SubSeq(Stages, 1, 5)

---------------------------------------------------------------------------
(* C4: one call invokes the round trip at most once, and exactly once when *)
(* it reaches the exchange; no failure makes it invoke it again.           *)

OneRoundTrip ==
    \A c \in Calls :
        LET h == hist[c]
            exchanged == \E i \in 1..Len(h.stages) : h.stages[i] = "RoundTrip"
        IN  /\ h.roundTrips <= 1
            /\ h.roundTrips = 1 <=> exchanged
            /\ local[c].pc \in {"ReadAll", "mxj.NewMapXml", "fault"} => h.roundTrips = 1
            /\ (Returned(c) /\ Len(h.stages) >= 4) => h.roundTrips = 1
            /\ (Returned(c) /\ Len(h.stages) < 4) => h.roundTrips = 0

OneRoundTripWitness ==
    \E c \in Calls :
        /\ Returned(c)
        /\ local[c].ret.err.stage \in {"RoundTrip", "ReadAll", "mxj.NewMapXml", "fault"}
        /\ hist[c].roundTrips = 1

---------------------------------------------------------------------------
(* C5: the envelope has a Header block exactly when action or username is  *)
(* set, a Security element exactly when username is set and an Action      *)
(* element exactly when action is set; Action comes before Security inside *)
(* the Header, and the Header before the Body.                             *)

EnvelopeStructure ==
    phase = "built" =>
        LET at(tok) == FirstIndex(envelope, tok, 1)
            action == soap.Action # <<>>
            user == soap.User # <<>>
        IN  /\ at("<s:Header>") > 0 <=> (action \/ user)
            /\ at("</s:Header>") > 0 <=> (action \/ user)
            /\ at("<Security") > 0 <=> user
            /\ at("</Security>") > 0 <=> user
            /\ at("<Action") > 0 <=> action
            /\ at("</Action>") > 0 <=> action
            /\ action => /\ at("<s:Header>") < at("<Action")
                         /\ at("<Action") < at("</Action>")
                         /\ at("</Action>") < at("</s:Header>")
            /\ user => /\ at("<s:Header>") < at("<Security")
                       /\ at("<Security") < at("</Security>")
                       /\ at("</Security>") < at("</s:Header>")
            /\ (action /\ user) => at("</Action>") < at("<Security")
            /\ (action \/ user) => at("</s:Header>") < at("<s:Body>")
            /\ at("<s:Body>") > 0
            /\ at("<s:Body>") < at("</s:Body>")

EnvelopeStructureWitness ==
    /\ phase = "built"
    /\ soap.Action # <<>>
    /\ soap.User # <<>>
    /\ Contains(envelope, "<Action")
    /\ Contains(envelope, "<Security")

---------------------------------------------------------------------------
(* C6: in the envelope of a descriptor with a username, the Password value *)
(* is base64(SHA1(nonce ++ timestamp ++ password)), nonce being the base64 *)
(* decoding of the Nonce value and timestamp the Created value of that     *)
(* same envelope, and password the descriptor's.                           *)

DigestRecomputed ==
    \A c \in Calls :
        BuiltToken(c) =>
            LET env == local[c].request
            IN  PasswordOf(env) =
                    EncodeToString(Sha1Sum(DecodeString(NonceOf(env))
                                           \o Bytes(CreatedOf(env))
                                           \o Bytes(local[c].soap.Password)))

DigestRecomputedWitness ==
    \E c \in Calls :
        /\ BuiltToken(c)
        /\ Len(PasswordOf(local[c].request)) = 4
        /\ Len(NonceOf(local[c].request)) > 0
        /\ Len(CreatedOf(local[c].request)) = 20

---------------------------------------------------------------------------
(* C7: the Created timestamp of a token is CameraTime + TokenAge when      *)
(* CameraTime is not the zero time, whatever the local clock shows, and    *)
(* the reading of the local clock taken in that call + TokenAge when it    *)
(* is; in UTC, as RFC 3339 renders it.                                     *)

TimestampChosen ==
    \A c \in Calls :
        BuiltToken(c) =>
            LET d == local[c].soap
                anchor == IF d.CameraTime.ticks # 0
                          THEN d.CameraTime.ticks
                          ELSE hist[c].clock
            IN  CreatedOf(local[c].request) =
                    Format([ticks |-> anchor + d.TokenAge, loc |-> "UTC"])

TimestampChosenWitness ==
    \E c \in Calls :
        /\ BuiltToken(c)
        /\ local[c].soap.CameraTime = CameraClock
        /\ local[c].soap.TokenAge > 0
        /\ hist[c].clock > 1

---------------------------------------------------------------------------
(* C8: what the returned envelope holds between the Body tags.             *)

\* the index of the first token of b at or after i that is not whitespace
RECURSIVE RunEnd(_, _)
RunEnd(b, i) == IF i > Len(b) \/ b[i] \notin Space THEN i ELSE RunEnd(b, i + 1)

\* the fragment b read from token i on, left to right, between a '>' and a
\* '<': a whitespace run with a '>' before it and a '<' after it is dropped,
\* any other whitespace run becomes one space
RECURSIVE NormalizedFrom(_, _, _)
NormalizedFrom(b, i, afterGT) ==
    IF i > Len(b) THEN <<>>
    ELSE IF b[i] \notin Space
    THEN <<b[i]>> \o NormalizedFrom(b, i + 1, b[i] \in EndsWithGT)
    ELSE LET j == RunEnd(b, i)
             beforeLT == j > Len(b) \/ b[j] \in StartsWithLT
         IN  (IF afterGT /\ beforeLT THEN <<>> ELSE <<" ">>)
             \o NormalizedFrom(b, j, FALSE)

NormalizedFragment(b) == NormalizedFrom(b, 1, TRUE)

\* every whitespace of b is a single space character that does not lie
\* between a '>' and a '<', the Body tags around b counted
AlreadyClean(b) ==
    \A i \in 1..Len(b) :
        b[i] \in Space =>
            /\ b[i] = " "
            /\ i = 1 \/ b[i - 1] \notin Space
            /\ i = Len(b) \/ b[i + 1] \notin Space
            /\ ~ /\ (i = 1 \/ b[i - 1] \in EndsWithGT)
                 /\ (i = Len(b) \/ b[i + 1] \in StartsWithLT)

(* C8, as claimed: the returned envelope holds the caller's body fragment  *)
(* verbatim between the Body tags, whitespace included.                    *)
BodyVerbatim ==
    phase = "built" => BodyOf(envelope) = soap.Body

(* C8, amended: the returned envelope holds between the Body tags the body *)
(* fragment as the "Clean request" step leaves it: whitespace between a    *)
(* '>' and a '<' (the Body tags included) removed, every other whitespace  *)
(* run replaced by one space.  It is the fragment verbatim exactly when    *)
(* the fragment has no such whitespace.                                    *)
BodyNormalized ==
    phase = "built" =>
        /\ BodyOf(envelope) = NormalizedFragment(soap.Body)
        /\ BodyOf(envelope) = soap.Body <=> AlreadyClean(soap.Body)

BodyNormalizedWitness ==
    /\ phase = "built"
    /\ soap.Body = <<">", "\n", "<">>
    /\ BodyOf(envelope) = <<">", "<">>

---------------------------------------------------------------------------
(* C9: the "Clean request" step is idempotent: cleaning a cleaned string   *)
(* leaves it as it is.                                                     *)

CleanIdempotent ==
    phase = "recleaned" => recleaned = cleaned

CleanIdempotentWitness ==
    /\ phase = "recleaned"
    /\ text = <<">", " ", "\n", "<", " ">>
    /\ cleaned = <<">", "<", " ">>
    /\ recleaned = cleaned

---------------------------------------------------------------------------
(* C10: concurrent calls on one descriptor leave the descriptor as it is;  *)
(* a call with a username generates its token once, from its own draw of   *)
(* the random source, and no nonce of one call is in the envelope of       *)
(* another.  (The random source is taken not to repeat a draw.)            *)

OwnToken ==
    /\ \A c \in Calls :
         /\ local[c].pc # "idle" => local[c].soap = soap
         /\ hist[c].tokens <= 1
         /\ Built(c) => hist[c].tokens = (IF soap.User # <<>> THEN 1 ELSE 0)
         /\ BuiltToken(c) =>
              /\ DecodeString(NonceOf(local[c].request))
                   = Bytes(UuidString(hist[c].draw))
              /\ CreatedOf(local[c].request)
                   = Timestamp(local[c].soap, hist[c].clock)
    /\ \A c, d \in Calls :
         (c # d /\ BuiltToken(c) /\ BuiltToken(d)) =>
             /\ hist[c].draw # hist[d].draw
             /\ NonceOf(local[c].request) # NonceOf(local[d].request)

OwnTokenWitness ==
    /\ \A c \in Calls : BuiltToken(c) /\ local[c].pc = "RoundTrip"
    /\ hist["c1"].draw = 1
    /\ hist["c2"].draw = 0
    /\ hist["c1"].clock # hist["c2"].clock

=============================================================================
